---- MODULE Spec2Model ----
(***************************************************************************)
(* Repair-shop management backend: the customer, employee and product      *)
(* routers (Express handlers over a relational store).  Every handler is   *)
(* one action; the store is modelled as tables without constraints (the    *)
(* schema is not part of the sources), a parent table being a function     *)
(* from the generated primary key to the row, a phone table a bag of       *)
(* <<parent id, phone number>> rows.                                       *)
(***************************************************************************)
EXTENDS Integers, Sequences, FiniteSets, Bags, TLC

(***************************************************************************)
(* Bound of the exploration: the number of requests a behaviour sends.     *)
(***************************************************************************)
MaxCalls == 2

(***************************************************************************)
(* Values.  Absent is JavaScript's undefined (a key the body lacks), NULL  *)
(* the store's NULL.                                                       *)
(***************************************************************************)
Absent == "undefined"
NULL == "NULL"

\* mysql2's query() escapes an undefined bind parameter as NULL
ToSql(v) == IF v = Absent THEN NULL ELSE v

\* the path parameter :id
Ids == {1, 2}

Range(s) == {s[i] : i \in DOMAIN s}

SeqsUpTo(S, n) == UNION {[1..k -> S] : k \in 0..n}

(***************************************************************************)
(* String predicates of the validators (validator.js semantics on the      *)
(* characters of the value).                                               *)
(***************************************************************************)
Char(s, i) == SubSeq(s, i, i)

Letters == {"a","b","c","d","e","f","g","h","i","j","k","l","m","n","o","p","q","r",
            "s","t","u","v","w","x","y","z","A","B","C","D","E","F","G","H","I","J",
            "K","L","M","N","O","P","Q","R","S","T","U","V","W","X","Y","Z"}

Digits == {"0","1","2","3","4","5","6","7","8","9"}

AllIn(s, C) == \A i \in 1..Len(s) : Char(s, i) \in C

\* /^[a-zA-Z']+$/
IsName(s) == Len(s) > 0 /\ AllIn(s, Letters \cup {"'"})

\* /^07\d{8}$/
IsPhone(s) == /\ Len(s) = 10
              /\ SubSeq(s, 1, 2) = "07"
              /\ AllIn(SubSeq(s, 3, 10), Digits)

\* isEmail(): one "@", a non-empty local part, a dotted domain with
\* non-empty labels
IsEmail(s) ==
    LET ats == {i \in 1..Len(s) : Char(s, i) = "@"}
    IN /\ Cardinality(ats) = 1
       /\ LET at == CHOOSE i \in ats : TRUE
              dots == {i \in (at + 1)..Len(s) : Char(s, i) = "."}
          IN /\ at > 1
             /\ dots # {}
             /\ \A d \in dots : d > at + 1 /\ d < Len(s) /\ (d + 1) \notin dots
             /\ AllIn(SubSeq(s, 1, at - 1), Letters \cup Digits \cup {".", "_", "-"})
             /\ AllIn(SubSeq(s, at + 1, Len(s)), Letters \cup Digits \cup {".", "-"})

\* isAlphanumeric()
IsAlphanumeric(s) == Len(s) > 0 /\ AllIn(s, Letters \cup Digits)

(***************************************************************************)
(* Validation layer (express-validator).  A chain reports every validator  *)
(* of it that fails (no bail); .optional() skips the chain of an absent    *)
(* field.  An error is <<field, message>>.                                 *)
(***************************************************************************)
\* a request body is a function from the keys it carries to their values
Has(b, k) == k \in DOMAIN b

\* req.body.<k>: undefined for a key the body lacks
Field(b, k) == IF Has(b, k) THEN b[k] ELSE Absent

\* the string a standard validator sees: undefined is validated as ""
Str(b, k) == IF Has(b, k) THEN b[k] ELSE ""

Check(ok, field, msg) == IF ok THEN <<>> ELSE << <<field, msg>> >>

\* .optional(): the chain of a key the body lacks is skipped
Optional(b, k, errs) == IF Has(b, k) THEN errs ELSE <<>>

\* .isArray() and the custom validator of a phone list: the loop throws on
\* the first phone that fails the pattern, and on a value that is not iterable
PhonesChain(b, k, arrayMsg, msg) ==
    Check(Has(b, k), k, arrayMsg)
    \o (IF Has(b, k) THEN Check(\A i \in DOMAIN b[k] : IsPhone(b[k][i]), k, msg)
        ELSE << <<k, "undefined is not iterable">> >>)

ValidateCustomerRegister(b) ==
    Check(Str(b, "firstName") # "", "firstName", "First name is mandatory")
    \o Check(IsName(Str(b, "firstName")), "firstName",
             "First name should only contain letters and ' symbol")
    \o Check(Len(Str(b, "firstName")) <= 10, "firstName",
             "First name should not exceed 10 characters")
    \o Check(Str(b, "lastName") # "", "lastName", "Last name is mandatory")
    \o Check(IsName(Str(b, "lastName")), "lastName",
             "Last name should only contain letters and ' symbol")
    \o Check(Len(Str(b, "lastName")) <= 20, "lastName",
             "Last name should not exceed 20 characters")
    \o Check(Str(b, "email") # "", "email", "Email is mandatory")
    \o Check(IsEmail(Str(b, "email")), "email", "Invalid email format")
    \o Check(Len(Str(b, "email")) <= 100, "email",
             "Email should not exceed 100 characters")
    \o Check(Str(b, "customerType") # "", "customerType", "Customer type is mandatory")
    \o Check(Str(b, "customerType") \in {"Regular", "Normal"}, "customerType",
             "Customer type should be either 'Regular' or 'Normal'")
    \o PhonesChain(b, "phoneNumbers", "Phone numbers should be an array",
                   "Telephone number should contain 10 digits and start with 07")

ValidateCustomerUpdate(b) ==
    Optional(b, "firstName",
             Check(Len(Str(b, "firstName")) <= 10, "firstName",
                   "First name should not exceed 10 characters"))
    \o Optional(b, "lastName",
                Check(Len(Str(b, "lastName")) <= 20, "lastName",
                      "Last name should not exceed 20 characters"))
    \o Optional(b, "email",
                Check(IsEmail(Str(b, "email")), "email", "Invalid email format"))
    \o Optional(b, "customerType",
                Check(Str(b, "customerType") \in {"Regular", "Premium"}, "customerType",
                      "Customer type should be either 'Regular' or 'Premium'"))
    \o Optional(b, "phoneNumbers",
                PhonesChain(b, "phoneNumbers", "Phone numbers should be an array",
                            "Telephone number should contain 10 digits and start with 07"))

\* the value of a string of digits
RECURSIVE Num(_)
Num(s) ==
    IF Len(s) = 0 THEN 0
    ELSE 10 * Num(SubSeq(s, 1, Len(s) - 1))
         + (CHOOSE d \in 0..9 : ToString(d) = Char(s, Len(s)))

DaysIn(y, m) ==
    IF m \in {4, 6, 9, 11} THEN 30
    ELSE IF m # 2 THEN 31
    ELSE IF y % 4 = 0 /\ (y % 100 # 0 \/ y % 400 = 0) THEN 29 ELSE 28

\* isDate(): YYYY-MM-DD or YYYY/MM/DD naming a day of the calendar
IsDate(s) ==
    /\ Len(s) = 10
    /\ Char(s, 5) \in {"-", "/"}
    /\ Char(s, 8) = Char(s, 5)
    /\ AllIn(SubSeq(s, 1, 4) \o SubSeq(s, 6, 7) \o SubSeq(s, 9, 10), Digits)
    /\ Num(SubSeq(s, 6, 7)) \in 1..12
    /\ Num(SubSeq(s, 9, 10)) \in 1..DaysIn(Num(SubSeq(s, 1, 4)), Num(SubSeq(s, 6, 7)))

\* a date as the number yyyymmdd
DayNumber(s) ==
    10000 * Num(SubSeq(s, 1, 4)) + 100 * Num(SubSeq(s, 6, 7)) + Num(SubSeq(s, 9, 10))

\* moment(): the day the request is served
Today == "2026-11-05"

\* now.diff(dateOfBirth, 'years'): whole years from the date to today
AgeInYears(s) == (DayNumber(Today) - DayNumber(s)) \div 10000

\* the custom validator of dob: the first of its two throws
DobCustom(s) ==
    IF ~IsDate(s) THEN <<>>    \* an invalid moment: neither comparison is true
    ELSE IF DayNumber(s) > DayNumber(Today)
    THEN << <<"dob", "Date of birth cannot be a future date">> >>
    ELSE Check(AgeInYears(s) >= 18, "dob", "Employee must be at least 18 years old")

\* /^(?:\d{9}[Vv]|\d{12})$/
IsNic(s) ==
    \/ Len(s) = 10 /\ AllIn(SubSeq(s, 1, 9), Digits) /\ Char(s, 10) \in {"V", "v"}
    \/ Len(s) = 12 /\ AllIn(s, Digits)

ValidateEmployeeRegister(b) ==
    Check(Str(b, "firstName") # "", "firstName", "First name is mandatory")
    \o Check(IsName(Str(b, "firstName")), "firstName",
             "First name should only contain letters and ' symbol")
    \o Check(Len(Str(b, "firstName")) <= 50, "firstName",
             "First name should not exceed 50 characters")
    \o Check(Str(b, "lastName") # "", "lastName", "Last name is mandatory")
    \o Check(IsName(Str(b, "lastName")), "lastName",
             "Last name should only contain letters and ' symbol")
    \o Check(Len(Str(b, "lastName")) <= 50, "lastName",
             "Last name should not exceed 50 characters")
    \o Check(Str(b, "email") # "", "email", "Email is mandatory")
    \o Check(IsEmail(Str(b, "email")), "email", "Invalid email format")
    \o Check(Len(Str(b, "email")) <= 100, "email",
             "Email should not exceed 100 characters")
    \o PhonesChain(b, "mobileno", "Phone numbers should be an array",
                   "Telephone number should contain 10 digits and start with 07")
    \o Check(Str(b, "nic") # "", "nic", "NIC is mandatory")
    \o Check(IsNic(Str(b, "nic")), "nic",
             "Invalid NIC format. Should be 9 digits followed by V or 12 digits.")
    \o Check(Str(b, "role") # "", "role", "Role is mandatory")
    \o Check(Str(b, "role") \in {"owner", "employee"}, "role",
             "Role should be either 'owner' or 'employee'")
    \o Check(Str(b, "username") # "", "username", "Username is mandatory")
    \o Check(Len(Str(b, "username")) >= 5 /\ Len(Str(b, "username")) <= 50, "username",
             "Username should be between 5 to 50 characters")
    \o Check(Str(b, "password") # "", "password", "Password is mandatory")
    \o Check(Len(Str(b, "password")) >= 6, "password",
             "Password should be at least 6 characters long")
    \o Check(Str(b, "dob") # "", "dob", "Date of birth is mandatory")
    \o Check(IsDate(Str(b, "dob")), "dob", "Invalid date format")
    \o DobCustom(Str(b, "dob"))

ValidateEmployeeUpdate(b) ==
    Optional(b, "firstName",
             Check(Len(Str(b, "firstName")) <= 50, "firstName", "Invalid value"))
    \o Optional(b, "lastName",
                Check(Len(Str(b, "lastName")) <= 50, "lastName", "Invalid value"))
    \o Optional(b, "email", Check(IsEmail(Str(b, "email")), "email", "Invalid value"))
    \o Optional(b, "role",
                Check(Str(b, "role") \in {"owner", "employee"}, "role", "Invalid value"))
    \o Optional(b, "mobileno",
                PhonesChain(b, "mobileno", "Invalid value",
                            "Mobile number should contain 10 digits and start with 07"))
    \o Optional(b, "dob",
                Check(IsDate(Str(b, "dob")), "dob", "Invalid date of birth format"))

\* isURL(): a scheme, "://" and a dotted host
IsURL(s) ==
    \E i \in 2..(Len(s) - 2) :
        /\ SubSeq(s, i, i + 2) = "://"
        /\ SubSeq(s, 1, i - 1) \in {"http", "https", "ftp"}
        /\ \E d \in (i + 4)..(Len(s) - 1) : Char(s, d) = "."

ValidateProductAdd(b) ==
    Check(Str(b, "productName") # "", "productName", "Product name is required")
    \o Check(Len(Str(b, "productName")) <= 100, "productName",
             "Product name cannot exceed 100 characters")
    \o Check(Str(b, "model") # "", "model", "Model is required")
    \o Check(Len(Str(b, "model")) <= 50, "model", "Model cannot exceed 50 characters")
    \o Check(Str(b, "modelNo") # "", "modelNo", "Model number is required")
    \o Check(Len(Str(b, "modelNo")) <= 30, "modelNo",
             "Model number cannot exceed 30 characters")
    \o Optional(b, "productImage",
                Check(IsURL(Str(b, "productImage")), "productImage",
                      "Invalid URL for product image"))

ValidateProductUpdate(b) ==
    Optional(b, "productName",
             Check(Len(Str(b, "productName")) <= 100, "productName", "Invalid value"))
    \o Optional(b, "model", Check(Len(Str(b, "model")) <= 50, "model", "Invalid value"))
    \o Optional(b, "modelNo",
                Check(IsAlphanumeric(Str(b, "modelNo")), "modelNo", "Invalid value")
                \o Check(Len(Str(b, "modelNo")) <= 30, "modelNo", "Invalid value"))
    \o Optional(b, "productImage",
                Check(IsURL(Str(b, "productImage")), "productImage", "Invalid value"))

(***************************************************************************)
(* Responses.                                                              *)
(***************************************************************************)
Message(code, msg) == [status |-> code, message |-> msg, errors |-> <<>>, error |-> ""]

ValidationFailure(errs) == [status |-> 400, message |-> "", errors |-> errs, error |-> ""]

StoreFailure(msg) == [status |-> 500, message |-> "", errors |-> <<>>, error |-> msg]

PhoneExistsMessage(phone) == "Phone number " \o phone \o " already exists"

(***************************************************************************)
(* Statements against the store.                                           *)
(***************************************************************************)
\* SELECT * FROM <parent> WHERE email = ?          (NULL equals nothing)
SelectByEmail(table, email) ==
    {id \in DOMAIN table : ToSql(email) # NULL /\ table[id].email = ToSql(email)}

\* SELECT * FROM <parent> WHERE email = ? AND <key> != ?
SelectByEmailExcept(table, email, id) == SelectByEmail(table, email) \ {id}

\* SELECT * FROM <phones> WHERE phone_number = ?
SelectByPhone(phones, phone) == {r \in BagToSet(phones) : r[2] = phone}

\* the phone-check loop of register: the position of the first phone of the
\* list, from position i on, that the table holds; 0 when the loop ends
\* a faulty phone check that looks at one element of the list only
OnlyThisPhone(phones, list, i) ==
    IF i <= Len(list) /\ SelectByPhone(phones, list[i]) # {} THEN i ELSE 0

RECURSIVE FirstExistingPhone(_, _, _)
FirstExistingPhone(phones, list, i) ==
    IF i > Len(list) THEN 0
    ELSE IF SelectByPhone(phones, list[i]) # {} THEN i
    ELSE FirstExistingPhone(phones, list, i + 1)

\* a faulty bulk insert that writes every distinct number once
PhoneValuesOnce(id, list) ==
    [r \in {<<id, list[i]>> : i \in DOMAIN list} |-> 1]

\* phoneNumbers.map(phone => [id, phone]): one row per element of the list
PhoneValues(id, list) ==
    [r \in {<<id, list[i]>> : i \in DOMAIN list} |->
        Cardinality({i \in DOMAIN list : list[i] = r[2]})]

\* INSERT INTO <phones> (<key>, phone_number) VALUES ?
InsertPhones(phones, id, list) == phones (+) PhoneValues(id, list)

\* a faulty delete that leaves the phone table alone
KeepPhones(phones, id) == phones

\* a faulty delete that removes the rows of one number of the parent only
DeleteOneNumber(phones, id) ==
    LET own == {q \in BagToSet(phones) : q[1] = id}
    IN IF own = {} THEN phones
       ELSE LET gone == CHOOSE q \in own : TRUE
            IN [r \in BagToSet(phones) \ {gone} |-> phones[r]]

\* DELETE FROM <phones> WHERE <key> = ?
DeletePhones(phones, id) ==
    [r \in {q \in BagToSet(phones) : q[1] # id} |-> phones[r]]

\* DELETE FROM <parent> WHERE <key> = ?
DeleteRow(table, id) == [k \in DOMAIN table \ {id} |-> table[k]]

\* INSERT INTO <parent> ...: the row is stored under the generated key
InsertRow(table, id, row) == [k \in DOMAIN table \cup {id} |-> IF k = id THEN row ELSE table[k]]

\* UPDATE <parent> SET ... WHERE <key> = ?: no row, no change
UpdateRow(table, id, row) == [k \in DOMAIN table |-> IF k = id THEN row ELSE table[k]]

\* the phone numbers stored for a parent id, as a bag
PhonesOf(phones, id) ==
    [p \in {r[2] : r \in {q \in BagToSet(phones) : q[1] = id}} |-> phones[<<id, p>>]]

\* the phone numbers of a list, as a bag
BagOfList(list) ==
    [p \in Range(list) |-> Cardinality({i \in DOMAIN list : list[i] = p})]

(***************************************************************************)
(* State.                                                                  *)
(***************************************************************************)
VARIABLES
    router,                 \* the mounted router the requests of this run go to
    calls,                  \* requests sent so far
    req,                    \* the last request: route, :id, body, uploaded file
    res,                    \* the response to the last request
    stmts,                  \* the statements the last request issued, in order
    customers,              \* customers: customer_id -> row
    customer_telephones,    \* bag of <<customer_id, phone_number>>
    telephones,             \* whether the schema holds a table named telephones
    nextCustomerId,         \* AUTO_INCREMENT of customers
    employees,              \* employees: employee_id -> row
    employee_phones,        \* bag of <<employee_id, phone_number>>
    nextEmployeeId,         \* AUTO_INCREMENT of employees
    products,               \* products: product_id -> row
    nextProductId,          \* AUTO_INCREMENT of products
    uploads,                \* number of files written to ./uploads/
    inflight                \* the registrations being served at once, by call

vars == <<router, calls, req, res, stmts, customers, customer_telephones, telephones,
          nextCustomerId, employees, employee_phones, nextEmployeeId, products,
          nextProductId, uploads, inflight>>

customerVars == <<customers, customer_telephones, nextCustomerId>>
employeeVars == <<employees, employee_phones, nextEmployeeId>>
productVars == <<products, nextProductId, uploads>>

NoTable == [k \in {} |-> NULL]

NoRequest == [op |-> "", id |-> 0, body |-> <<>>, file |-> FALSE]

NoResponse == [status |-> 0, message |-> "", errors |-> <<>>, error |-> ""]

\* the store at start-up: empty
EmptyStore ==
    /\ customers = NoTable
    /\ customer_telephones = EmptyBag
    /\ nextCustomerId = 1
    /\ employees = NoTable
    /\ employee_phones = EmptyBag
    /\ nextEmployeeId = 1
    /\ products = NoTable
    /\ nextProductId = 1

\* the store at start-up: the rows one earlier registration and one earlier
\* product creation left
SeededStore ==
    /\ customers = 1 :> [firstName |-> "Amal", lastName |-> "Perera",
                         email |-> "amal@x.lk", type |-> "Regular"]
    /\ customer_telephones = SetToBag({<<1, "0711111111">>})
    /\ nextCustomerId = 2
    /\ employees = 1 :> [first_name |-> "Kamal", last_name |-> "Silva",
                         email |-> "amal@x.lk", nic |-> "901234567V",
                         role |-> "employee", username |-> "kamal",
                         password |-> "secret1", dob |-> "1990-05-01"]
    /\ employee_phones = SetToBag({<<1, "0711111111">>})
    /\ nextEmployeeId = 2
    /\ products = 1 :> [product_name |-> "Drill", model |-> "Bosch",
                        model_no |-> "GSB500", product_image |-> NULL]
    /\ nextProductId = 2

Init ==
    /\ router \in {"customers", "employees", "products"}
    /\ calls = 0
    /\ req = NoRequest
    /\ res = NoResponse
    /\ stmts = <<>>
    /\ telephones \in BOOLEAN
    /\ uploads = 0
    /\ inflight = <<>>
    /\ EmptyStore \/ SeededStore

\* a request reaches the router mounted under its path
Request(r, op, id, body, file) ==
    /\ router = r
    /\ calls < MaxCalls
    /\ calls' = calls + 1
    /\ req' = [op |-> op, id |-> id, body |-> body, file |-> file]
    /\ UNCHANGED <<router, telephones, inflight>>

(***************************************************************************)
(* Request bodies.  A router is sent its complete bodies (every email,     *)
(* every phone list), and a complete body with one key left out or one     *)
(* value its rules reject, and the empty body.                             *)
(***************************************************************************)
EmailInputs == {"amal@x.lk", "nimal@x.lk"}

PhoneInputs == {"0711111111", "0722222222"}

\* phone lists, repeated numbers included, up to one entry per number
PhoneLists == SeqsUpTo(PhoneInputs, Cardinality(PhoneInputs))

\* body b without key k
Without(b, k) == [j \in DOMAIN b \ {k} |-> b[j]]

\* body b with each one of its keys left out
Omissions(b) == {Without(b, k) : k \in DOMAIN b}

CustomerBody(email, phones) ==
    [firstName |-> "Amal", lastName |-> "Perera", email |-> email,
     customerType |-> "Regular", phoneNumbers |-> phones]

CustomerBodies ==
    {CustomerBody(e, l) : e \in EmailInputs, l \in PhoneLists}
    \cup Omissions(CustomerBody("nimal@x.lk", <<"0722222222">>))
    \cup { CustomerBody("amal.x.lk", <<"0722222222">>),
           CustomerBody("nimal@x.lk", <<"0812345678">>),
           [CustomerBody("nimal@x.lk", <<"0722222222">>) EXCEPT !.customerType = "Premium"],
           [CustomerBody("nimal@x.lk", <<"0722222222">>) EXCEPT !.firstName = "Bartholomew"],
           <<>> }

\* the bodies of B, each also with key k set to every value of V
WithKey(B, k, V) == B \cup {(k :> v) @@ b : b \in B, v \in V}

\* PATCH bodies: every subset of the allowed keys, and a key the handler skips
PatchBodies ==
    WithKey(WithKey(WithKey(WithKey({<<>>},
        "firstName", {"Nimal"}),
        "lastName", {"Silva"}),
        "email", {"nimal@x.lk"}),
        "customerType", {"Premium"})
    \cup {[phoneNumbers |-> <<"0722222222">>],
          [phoneNumbers |-> <<"0722222222">>, email |-> "amal@x.lk"]}

EmployeeBody(email, username, phones) ==
    [firstName |-> "Kamal", lastName |-> "Silva", email |-> email, mobileno |-> phones,
     nic |-> "901234567V", role |-> "employee", username |-> username,
     password |-> "secret1", dob |-> "1990-05-01"]

UsernameInputs == {"kamal", "sunil"}

\* dates of birth the rules reject: a minor, a day to come, no day at all
DobFaults == {"2015-01-31", "2026-11-06", "1990-02-30"}

EmployeeBodies ==
    {EmployeeBody(e, u, l) : e \in EmailInputs, u \in UsernameInputs, l \in PhoneLists}
    \cup Omissions(EmployeeBody("nimal@x.lk", "sunil", <<"0722222222">>))
    \cup {[EmployeeBody("nimal@x.lk", "sunil", <<"0722222222">>) EXCEPT !.dob = d] :
          d \in DobFaults}
    \cup { EmployeeBody("amal.x.lk", "sunil", <<"0722222222">>),
           EmployeeBody("nimal@x.lk", "sunil", <<"0812345678">>),
           [EmployeeBody("nimal@x.lk", "sunil", <<"0722222222">>) EXCEPT !.role = "manager"],
           <<>> }

\* PUT /api/employees/:id reads no username
EmployeeUpdateBodies == {b \in EmployeeBodies : Field(b, "username") # "kamal"}

ProductBody(modelNo) ==
    [productName |-> "Drill", model |-> "Bosch", modelNo |-> modelNo]

ProductBodies ==
    {ProductBody("GSB500"), ProductBody("GSB-500"), ProductBody(""),
     ("productImage" :> "drill.png") @@ ProductBody("GSB500"),
     ("productImage" :> "http://x.lk/drill.png") @@ ProductBody("GSB500"),
     <<>>}
    \cup Omissions(ProductBody("GSB500"))

\* the validation result of every body, per route
CustomerRegisterErrors == [b \in CustomerBodies |-> ValidateCustomerRegister(b)]
EmployeeRegisterErrors == [b \in EmployeeBodies |-> ValidateEmployeeRegister(b)]

(***************************************************************************)
(* Customer router.                                                        *)
(***************************************************************************)
CustomerRow(b) ==
    [firstName |-> ToSql(Field(b, "firstName")),
     lastName |-> ToSql(Field(b, "lastName")),
     email |-> ToSql(Field(b, "email")),
     type |-> ToSql(Field(b, "customerType"))]

\* the SELECTs of the phone-check loop up to and including position n
PhoneChecks(table, n) == [i \in 1..n |-> "SELECT " \o table]

\* POST /api/customers/register
RegisterCustomer(b) ==
    /\ Request("customers", "RegisterCustomer", 0, b, FALSE)
    /\ UNCHANGED <<employeeVars, productVars>>
    /\ LET errors == CustomerRegisterErrors[b]
       IN IF errors # <<>>
          THEN /\ res' = ValidationFailure(errors)
               /\ stmts' = <<>>
               /\ UNCHANGED <<customers, customer_telephones, nextCustomerId>>
          ELSE IF SelectByEmail(customers, b.email) # {}
          THEN /\ res' = Message(400, "Email already exists")
               /\ stmts' = <<"SELECT customers">>
               /\ UNCHANGED <<customers, customer_telephones, nextCustomerId>>
          ELSE LET hit == FirstExistingPhone(customer_telephones, b.phoneNumbers, 1)
               IN IF hit # 0
                  THEN /\ res' = Message(400, PhoneExistsMessage(b.phoneNumbers[hit]))
                       /\ stmts' = <<"SELECT customers">>
                                   \o PhoneChecks("customer_telephones", hit)
                       /\ UNCHANGED <<customers, customer_telephones, nextCustomerId>>
                  ELSE LET customerId == nextCustomerId
                       IN /\ customers' = InsertRow(customers, customerId, CustomerRow(b))
                          /\ nextCustomerId' = nextCustomerId + 1
                          /\ customer_telephones' =
                                IF Len(b.phoneNumbers) > 0
                                THEN InsertPhones(customer_telephones, customerId,
                                                  b.phoneNumbers)
                                ELSE customer_telephones
                          /\ stmts' = <<"SELECT customers">>
                                      \o PhoneChecks("customer_telephones",
                                                     Len(b.phoneNumbers))
                                      \o <<"INSERT customers">>
                                      \o (IF Len(b.phoneNumbers) > 0
                                          THEN <<"INSERT customer_telephones">>
                                          ELSE <<>>)
                          /\ res' = Message(201, "Customer registered successfully!")

\* phoneNumbers && phoneNumbers.length > 0
HasPhones(b, k) == Has(b, k) /\ Len(b[k]) > 0

\* PUT /api/customers/:id   (the handler never reads the validation result)
UpdateCustomer(id, b) ==
    /\ Request("customers", "UpdateCustomer", id, b, FALSE)
    /\ UNCHANGED <<employeeVars, productVars, nextCustomerId>>
    /\ IF SelectByEmailExcept(customers, Field(b, "email"), id) # {}
       THEN /\ res' = Message(400, "Email already exists")
            /\ stmts' = <<"SELECT customers">>
            /\ UNCHANGED <<customers, customer_telephones>>
       ELSE /\ customers' = UpdateRow(customers, id, CustomerRow(b))
            /\ customer_telephones' =
                  IF HasPhones(b, "phoneNumbers")
                  THEN InsertPhones(DeletePhones(customer_telephones, id), id,
                                    b.phoneNumbers)
                  ELSE DeletePhones(customer_telephones, id)
            /\ stmts' = <<"SELECT customers", "UPDATE customers",
                          "DELETE customer_telephones">>
                        \o (IF HasPhones(b, "phoneNumbers")
                            THEN <<"INSERT customer_telephones">>
                            ELSE <<>>)
            /\ res' = Message(200, "Customer updated successfully!")

\* a faulty allow-list that lets phoneNumbers through
PatchAllowedWithPhones == {"firstName", "lastName", "email", "customerType", "phoneNumbers"}

\* the keys of a PATCH body the handler turns into "key = ?"
PatchAllowed == {"firstName", "lastName", "email", "customerType"}

\* the columns of the customers table
CustomerColumns == {"firstName", "lastName", "email", "type"}

UpdateFields(updates) == DOMAIN updates \cap PatchAllowed

\* UPDATE customers SET <key> = ?, ... WHERE customer_id = ?
PatchRow(row, updates) ==
    [c \in CustomerColumns |-> IF c \in UpdateFields(updates) THEN updates[c] ELSE row[c]]

\* PATCH /api/customers/:id
PatchCustomer(id, updates) ==
    /\ Request("customers", "PatchCustomer", id, updates, FALSE)
    /\ UNCHANGED <<employeeVars, productVars, nextCustomerId, customer_telephones>>
    /\ IF UpdateFields(updates) = {}
       THEN /\ res' = Message(400, "No valid fields provided for update")
            /\ stmts' = <<>>
            /\ UNCHANGED customers
       ELSE IF ~(UpdateFields(updates) \subseteq CustomerColumns)
       THEN \* a key that names no column: the statement fails
            /\ res' = StoreFailure("Unknown column in field list")
            /\ stmts' = <<"UPDATE customers">>
            /\ UNCHANGED customers
       ELSE /\ customers' = IF id \in DOMAIN customers
                            THEN UpdateRow(customers, id, PatchRow(customers[id], updates))
                            ELSE customers
            /\ stmts' = <<"UPDATE customers">>
            /\ res' = Message(200, "Customer updated successfully!")

\* DELETE /api/customers/:id: the second statement names the table
\* telephones, not customer_telephones; it fails when the schema has no such
\* table and deletes nothing otherwise (no handler inserts into it)
DeleteCustomer(id) ==
    /\ Request("customers", "DeleteCustomer", id, <<>>, FALSE)
    /\ UNCHANGED <<employeeVars, productVars, nextCustomerId, customer_telephones>>
    /\ customers' = DeleteRow(customers, id)
    /\ stmts' = <<"DELETE customers", "DELETE telephones">>
    /\ res' = IF telephones
              THEN Message(200, "Customer deleted successfully!")
              ELSE StoreFailure("Table 'telephones' doesn't exist")

\* GET /api/customers/:id
GetCustomerById(id) ==
    IF id \in DOMAIN customers THEN 200 ELSE 404

\* GET /api/customers/phone/:phoneNumber
GetCustomerByPhone(phone) ==
    IF \E r \in SelectByPhone(customer_telephones, phone) : r[1] \in DOMAIN customers
    THEN 200 ELSE 404

CustomerNext ==
    \/ \E b \in CustomerBodies : RegisterCustomer(b)
    \/ \E id \in Ids, b \in CustomerBodies : UpdateCustomer(id, b)
    \/ \E id \in Ids, u \in PatchBodies : PatchCustomer(id, u)
    \/ \E id \in Ids : DeleteCustomer(id)

\* a faulty username lookup that never finds a row
NoUsername(table, username) == {}

(***************************************************************************)
(* Employee router.                                                        *)
(***************************************************************************)
\* SELECT * FROM employees WHERE username = ?
SelectByUsername(table, username) ==
    {id \in DOMAIN table : ToSql(username) # NULL /\ table[id].username = ToSql(username)}

EmployeeRow(b) ==
    [first_name |-> ToSql(Field(b, "firstName")),
     last_name |-> ToSql(Field(b, "lastName")),
     email |-> ToSql(Field(b, "email")),
     nic |-> ToSql(Field(b, "nic")),
     role |-> ToSql(Field(b, "role")),
     username |-> ToSql(Field(b, "username")),
     password |-> ToSql(Field(b, "password")),
     dob |-> ToSql(Field(b, "dob"))]

\* POST /api/employees/register
RegisterEmployee(b) ==
    /\ Request("employees", "RegisterEmployee", 0, b, FALSE)
    /\ UNCHANGED <<customerVars, productVars>>
    /\ LET errors == EmployeeRegisterErrors[b]
       IN IF errors # <<>>
          THEN /\ res' = ValidationFailure(errors)
               /\ stmts' = <<>>
               /\ UNCHANGED employeeVars
          ELSE IF SelectByEmail(employees, b.email) # {}
          THEN /\ res' = Message(400, "Email already exists")
               /\ stmts' = <<"SELECT employees">>
               /\ UNCHANGED employeeVars
          ELSE IF SelectByUsername(employees, b.username) # {}
          THEN /\ res' = Message(400, "Username already exists")
               /\ stmts' = <<"SELECT employees", "SELECT employees">>
               /\ UNCHANGED employeeVars
          ELSE LET hit == FirstExistingPhone(employee_phones, b.mobileno, 1)
               IN IF hit # 0
                  THEN /\ res' = Message(400, PhoneExistsMessage(b.mobileno[hit]))
                       /\ stmts' = <<"SELECT employees", "SELECT employees">>
                                   \o PhoneChecks("employee_phones", hit)
                       /\ UNCHANGED employeeVars
                  ELSE LET employeeId == nextEmployeeId
                       IN /\ employees' = InsertRow(employees, employeeId, EmployeeRow(b))
                          /\ nextEmployeeId' = nextEmployeeId + 1
                          /\ employee_phones' =
                                IF Len(b.mobileno) > 0
                                THEN InsertPhones(employee_phones, employeeId, b.mobileno)
                                ELSE employee_phones
                          /\ stmts' = <<"SELECT employees", "SELECT employees">>
                                      \o PhoneChecks("employee_phones", Len(b.mobileno))
                                      \o <<"INSERT employees">>
                                      \o (IF Len(b.mobileno) > 0
                                          THEN <<"INSERT employee_phones">>
                                          ELSE <<>>)
                          /\ res' = Message(201, "Employee registered successfully!")

\* UPDATE employees SET first_name = ?, last_name = ?, email = ?, role = ?, dob = ?
EmployeeUpdatedRow(row, b) ==
    [row EXCEPT !.first_name = ToSql(Field(b, "firstName")),
                !.last_name = ToSql(Field(b, "lastName")),
                !.email = ToSql(Field(b, "email")),
                !.role = ToSql(Field(b, "role")),
                !.dob = ToSql(Field(b, "dob"))]

\* PUT /api/employees/:id   (no uniqueness check, validation result never read)
UpdateEmployee(id, b) ==
    /\ Request("employees", "UpdateEmployee", id, b, FALSE)
    /\ UNCHANGED <<customerVars, productVars, nextEmployeeId>>
    /\ employees' = IF id \in DOMAIN employees
                    THEN UpdateRow(employees, id, EmployeeUpdatedRow(employees[id], b))
                    ELSE employees
    /\ employee_phones' =
          IF HasPhones(b, "mobileno")
          THEN InsertPhones(DeletePhones(employee_phones, id), id, b.mobileno)
          ELSE DeletePhones(employee_phones, id)
    /\ stmts' = <<"UPDATE employees", "DELETE employee_phones">>
                \o (IF HasPhones(b, "mobileno") THEN <<"INSERT employee_phones">> ELSE <<>>)
    /\ res' = Message(200, "Employee updated successfully!")

\* DELETE /api/employees/:id
DeleteEmployee(id) ==
    /\ Request("employees", "DeleteEmployee", id, <<>>, FALSE)
    /\ UNCHANGED <<customerVars, productVars, nextEmployeeId>>
    /\ employees' = DeleteRow(employees, id)
    /\ employee_phones' = DeletePhones(employee_phones, id)
    /\ stmts' = <<"DELETE employees", "DELETE employee_phones">>
    /\ res' = Message(200, "Employee deleted successfully!")

\* GET /api/employees/:id
GetEmployeeById(id) ==
    IF id \in DOMAIN employees THEN 200 ELSE 404

EmployeeNext ==
    \/ \E b \in EmployeeBodies : RegisterEmployee(b)
    \/ \E id \in Ids, b \in EmployeeUpdateBodies : UpdateEmployee(id, b)
    \/ \E id \in Ids : DeleteEmployee(id)

(***************************************************************************)
(* Product router.  upload.single() runs before the validation chains: the *)
(* file a request carries is on disk when the handler starts.              *)
(***************************************************************************)
\* multer's diskStorage: the name of the n-th file written
UploadedFile(n) == "/uploads/productImage_" \o ToString(n)

\* req.file ? `/uploads/${req.file.filename}` : null
ProductImage(file) == IF file THEN UploadedFile(uploads + 1) ELSE NULL

\* upload.single("productImage")
Upload(file) == uploads' = IF file THEN uploads + 1 ELSE uploads

\* POST /api/products/add
AddProduct(b, file) ==
    /\ Request("products", "AddProduct", 0, b, file)
    /\ UNCHANGED <<customerVars, employeeVars>>
    /\ Upload(file)
    /\ LET errors == ValidateProductAdd(b)
       IN IF errors # <<>>
          THEN /\ res' = ValidationFailure(errors)
               /\ stmts' = <<>>
               /\ UNCHANGED <<products, nextProductId>>
          ELSE /\ products' = InsertRow(products, nextProductId,
                                 [product_name |-> b.productName, model |-> b.model,
                                  model_no |-> b.modelNo,
                                  product_image |-> ProductImage(file)])
               /\ nextProductId' = nextProductId + 1
               /\ stmts' = <<"INSERT products">>
               /\ res' = Message(201, "Product added successfully!")

\* if (x) { query += ...; params.push(x) }: undefined and "" are skipped
Truthy(b, k) == Has(b, k) /\ b[k] # ""

\* the row the dynamically built UPDATE leaves
ProductUpdatedRow(row, b, file) ==
    [product_name |-> IF Truthy(b, "productName") THEN b.productName ELSE row.product_name,
     model |-> IF Truthy(b, "model") THEN b.model ELSE row.model,
     model_no |-> IF Truthy(b, "modelNo") THEN b.modelNo ELSE row.model_no,
     product_image |-> IF file THEN ProductImage(file) ELSE row.product_image]

\* PUT /api/products/:id   (validation result never read)
UpdateProduct(id, b, file) ==
    /\ Request("products", "UpdateProduct", id, b, file)
    /\ UNCHANGED <<customerVars, employeeVars, nextProductId>>
    /\ Upload(file)
    /\ stmts' = <<"UPDATE products">>
    /\ IF ~(Truthy(b, "productName") \/ Truthy(b, "model") \/ Truthy(b, "modelNo") \/ file)
       THEN \* slice(0, -2) of "UPDATE products SET ": no statement the store parses
            /\ res' = StoreFailure("You have an error in your SQL syntax")
            /\ UNCHANGED products
       ELSE /\ products' = IF id \in DOMAIN products
                           THEN UpdateRow(products, id,
                                          ProductUpdatedRow(products[id], b, file))
                           ELSE products
            /\ res' = Message(200, "Product updated successfully!")

\* DELETE /api/products/:id
DeleteProduct(id) ==
    /\ Request("products", "DeleteProduct", id, <<>>, FALSE)
    /\ UNCHANGED <<customerVars, employeeVars, nextProductId, uploads>>
    /\ products' = DeleteRow(products, id)
    /\ stmts' = <<"DELETE products">>
    /\ res' = Message(200, "Product deleted successfully!")

ProductNext ==
    \/ \E b \in ProductBodies, file \in BOOLEAN : AddProduct(b, file)
    \/ \E id \in Ids, b \in ProductBodies, file \in BOOLEAN : UpdateProduct(id, b, file)
    \/ \E id \in Ids : DeleteProduct(id)

Next == CustomerNext \/ EmployeeNext \/ ProductNext

Spec == Init /\ [][Next]_vars

(***************************************************************************)
(* Vocabulary of the properties.  The customer and employee routers are    *)
(* read through the router the behaviour addresses.                        *)
(***************************************************************************)
RegisterOps == {"RegisterCustomer", "RegisterEmployee"}
FullUpdateOps == {"UpdateCustomer", "UpdateEmployee"}

Parents == IF router = "customers" THEN customers ELSE employees
Phones == IF router = "customers" THEN customer_telephones ELSE employee_phones
PhoneKey == IF router = "customers" THEN "phoneNumbers" ELSE "mobileno"

\* the rules the route of request r declares, applied to its body
DeclaredErrors(r) ==
    CASE r.op = "RegisterCustomer" -> CustomerRegisterErrors[r.body]
      [] r.op = "UpdateCustomer" -> ValidateCustomerUpdate(r.body)
      [] r.op = "RegisterEmployee" -> EmployeeRegisterErrors[r.body]
      [] r.op = "UpdateEmployee" -> ValidateEmployeeUpdate(r.body)
      [] r.op = "AddProduct" -> ValidateProductAdd(r.body)
      [] r.op = "UpdateProduct" -> ValidateProductUpdate(r.body)
      [] OTHER -> <<>>

\* the phone list of a body, empty when the body has none
PhoneList(b) == IF Has(b, PhoneKey) THEN b[PhoneKey] ELSE <<>>

\* some row of the table holds the value in the column
Held(table, column, value) == \E id \in DOMAIN table : table[id][column] = value

\* some row of the phone table holds the number
PhoneHeld(phones, phone) == \E r \in BagToSet(phones) : r[2] = phone

\* the phone numbers the phone table holds for a parent id
NumbersOf(phones, id) == {r[2] : r \in {q \in BagToSet(phones) : q[1] = id}}

\* the rows of the phone table that reference a parent id
RowCount(phones, id) == BagCardinality(PhonesOf(phones, id))

\* the first number of the list, in input order, that the phone table holds
FirstHeld(phones, list) ==
    list[CHOOSE i \in DOMAIN list :
            /\ PhoneHeld(phones, list[i])
            /\ \A j \in 1..(i - 1) : ~PhoneHeld(phones, list[j])]

\* the call stored nothing in the parent and phone tables of its router
StoreUntouched == Parents' = Parents /\ Phones' = Phones

\* a validated registration whose phone list names a number the table holds
RegisterWithHeldPhone ==
    /\ req'.op \in RegisterOps
    /\ \E i \in DOMAIN PhoneList(req'.body) : PhoneHeld(Phones, PhoneList(req'.body)[i])
    /\ DeclaredErrors(req') = <<>>

RejectedForFirstHeldPhone ==
    /\ res' = Message(400, PhoneExistsMessage(FirstHeld(Phones, PhoneList(req'.body))))
    /\ StoreUntouched

\* C1 as stated: every validated registration whose phone list names a number
\* already in the entity's phone table is answered 400 "Phone number <p>
\* already exists", <p> the first such number in input order, and creates no
\* parent row and no phone row.
C1_Original ==
    [][RegisterWithHeldPhone => RejectedForFirstHeldPhone]_vars

\* C1 amended: the same, for the registrations that pass the checks made
\* before the phone loop: no row holds the email and, for an employee, none
\* holds the username.
C1_HeldPhoneRejected ==
    [][(/\ RegisterWithHeldPhone
        /\ ~Held(Parents, "email", req'.body.email)
        /\ router = "employees" => ~Held(employees, "username", req'.body.username))
       => RejectedForFirstHeldPhone]_vars

\* a registration was refused for the second number of its list, the first
\* being new
C1_Witness ==
    /\ req.op \in RegisterOps
    /\ Has(req.body, PhoneKey)
    /\ Len(req.body[PhoneKey]) = 2
    /\ req.body[PhoneKey][1] # req.body[PhoneKey][2]
    /\ res = Message(400, PhoneExistsMessage(req.body[PhoneKey][2]))

\* the phone rows the call added
Created == Phones' (-) Phones

\* C2: a registration answered 201 with a phone list of size N inserts one
\* parent row and creates exactly N phone rows, one per entry of the list,
\* all referencing the key generated for the new parent row; it creates no
\* phone row referencing another parent and removes none.
C2_PhoneRowsOfNewParent ==
    [][(req'.op \in RegisterOps /\ res'.status = 201)
       => \E id \in DOMAIN Parents' \ DOMAIN Parents :
             /\ DOMAIN Parents' = DOMAIN Parents \cup {id}
             /\ Phones \sqsubseteq Phones'
             /\ BagCardinality(Created) = Len(PhoneList(req'.body))
             /\ \A r \in BagToSet(Created) : r[1] = id
             /\ PhonesOf(Created, id) = BagOfList(PhoneList(req'.body))]_vars

\* a registration with two phone numbers was answered 201
C2_Witness ==
    /\ req.op \in RegisterOps
    /\ res.status = 201
    /\ Len(PhoneList(req.body)) = 2

\* a full update that supplies a non-empty phone list
UpdateWithPhones == req.op \in FullUpdateOps /\ HasPhones(req.body, PhoneKey)

\* a full update without a phone list, or with an empty one
UpdateWithoutPhones == req.op \in FullUpdateOps /\ ~HasPhones(req.body, PhoneKey)

\* C3 as stated: once a full update that supplies a non-empty phone list L
\* has responded, the numbers stored for its id are exactly those of L.
C3_Original ==
    UpdateWithPhones => NumbersOf(Phones, req.id) = Range(req.body[PhoneKey])

\* C3 amended: the same, for the full updates answered 200 (a customer
\* update refused for its email leaves the phone rows as they were).
C3_PhonesReplaced ==
    (UpdateWithPhones /\ res.status = 200)
    => /\ NumbersOf(Phones, req.id) = Range(req.body[PhoneKey])
       /\ RowCount(Phones, req.id) = Len(req.body[PhoneKey])

\* a full update of an existing row replaced its phones by a list of two
C3_Witness ==
    /\ UpdateWithPhones
    /\ res.status = 200
    /\ req.id \in DOMAIN Parents
    /\ Len(req.body[PhoneKey]) = 2

\* C4 as stated: after a full update whose body has no phone list, or an
\* empty one, its id has no phone row, whatever else the body carries.
C4_Original ==
    UpdateWithoutPhones => RowCount(Phones, req.id) = 0

\* C4 amended: the same, for the full updates answered 200 (a customer
\* update refused for its email deletes nothing).
C4_PhonesWiped ==
    (UpdateWithoutPhones /\ res.status = 200) => RowCount(Phones, req.id) = 0

\* a full update of an existing row without phones, carrying other fields,
\* was answered 200
C4_Witness ==
    /\ UpdateWithoutPhones
    /\ res.status = 200
    /\ req.id \in DOMAIN Parents
    /\ Has(req.body, "email")

\* C5: after a delete of a customer with phone rows is answered 200, the
\* customer is not found by id and customer_telephones holds no row of that
\* customer_id, so none of its numbers counts as existing any more.
C5_DeleteRemovesPhones ==
    [][\A i \in Ids :
        (/\ req'.op = "DeleteCustomer"
         /\ req'.id = i
         /\ res'.status = 200
         /\ i \in DOMAIN customers
         /\ RowCount(customer_telephones, i) > 0)
        => /\ GetCustomerById(i)' = 404
           /\ RowCount(customer_telephones', i) = 0
           /\ \A p \in NumbersOf(customer_telephones, i) :
                 ~PhoneHeld(customer_telephones', p)]_vars

\* C6: no phone number occurs in more than one row of customer_telephones,
\* nor in more than one row of employee_phones.
C6_PhoneNumbersUnique ==
    \A phones \in {customer_telephones, employee_phones} :
        \A r \in BagToSet(phones) :
            /\ phones[r] = 1
            /\ \A q \in BagToSet(phones) : q[2] = r[2] => q = r

\* a registration naming an email a row of the entity holds
RegisterWithHeldEmail ==
    /\ req'.op \in RegisterOps
    /\ Has(req'.body, "email")
    /\ Held(Parents, "email", req'.body.email)

\* an employee registration naming a username a row holds, the email new
RegisterWithHeldUsername ==
    /\ req'.op = "RegisterEmployee"
    /\ Has(req'.body, "username")
    /\ Held(employees, "username", req'.body.username)
    /\ ~(Has(req'.body, "email") /\ Held(employees, "email", req'.body.email))

RejectedWith(msg) == res' = Message(400, msg) /\ StoreUntouched

\* C7 as stated: every registration whose email is that of a row of the
\* entity is answered 400 "Email already exists" and creates nothing; for
\* employees likewise for a username, "Username already exists", checked
\* after the email.
C7_Original ==
    [][/\ RegisterWithHeldEmail => RejectedWith("Email already exists")
       /\ RegisterWithHeldUsername => RejectedWith("Username already exists")]_vars

\* C7 amended: the same, for the registrations that pass validation (a body
\* that violates a field rule is answered with the error list first).
C7_DuplicateRejected ==
    [][/\ (RegisterWithHeldEmail /\ DeclaredErrors(req') = <<>>)
          => RejectedWith("Email already exists")
       /\ (RegisterWithHeldUsername /\ DeclaredErrors(req') = <<>>)
          => RejectedWith("Username already exists")]_vars

\* an employee registration with a new email was refused for its username
C7_Witness ==
    /\ req.op = "RegisterEmployee"
    /\ res = Message(400, "Username already exists")
    /\ ~Held(employees, "email", req.body.email)

\* C8: a full update of id i whose email another row of the entity holds is
\* answered 400 "Email already exists" and changes no row; an email only row
\* i itself holds is no reason to refuse.
C8_UpdateDuplicateEmailRejected ==
    [][req'.op \in FullUpdateOps /\ Has(req'.body, "email")
       => /\ (\E id \in DOMAIN Parents \ {req'.id} :
                 Parents[id].email = req'.body.email)
             => RejectedWith("Email already exists")
          /\ (\A id \in DOMAIN Parents \ {req'.id} :
                 Parents[id].email # req'.body.email)
             => res'.message # "Email already exists"]_vars

\* C9: on every route that declares field rules, a body that violates one is
\* answered 400 with the error list, no statement is issued and the tables
\* stay as they were.
C9_InvalidBodyRejected ==
    [][DeclaredErrors(req') # <<>>
       => /\ res' = ValidationFailure(DeclaredErrors(req'))
          /\ stmts' = <<>>
          /\ customers' = customers /\ customer_telephones' = customer_telephones
          /\ employees' = employees /\ employee_phones' = employee_phones
          /\ products' = products]_vars

\* C10: a customer PATCH whose body has none of the keys firstName, lastName,
\* email, customerType is answered 400 "No valid fields provided for update",
\* issues no statement and leaves every customer and phone row as it was.
C10_PatchWithoutFieldsRejected ==
    [][(/\ req'.op = "PatchCustomer"
        /\ DOMAIN req'.body \cap {"firstName", "lastName", "email", "customerType"} = {})
       => /\ res' = Message(400, "No valid fields provided for update")
          /\ stmts' = <<>>
          /\ customers' = customers
          /\ customer_telephones' = customer_telephones]_vars

\* a PATCH carrying only a key outside the list was refused
C10_Witness ==
    /\ req.op = "PatchCustomer"
    /\ DOMAIN req.body = {"phoneNumbers"}
    /\ res.status = 400

\* the row a PATCH with body b is to leave: the keys of b written to their
\* columns, customerType to the column type
PatchedRow(row, b) ==
    [c \in CustomerColumns |->
        IF c = "type"
        THEN (IF "customerType" \in DOMAIN b THEN b.customerType ELSE row.type)
        ELSE IF c \in DOMAIN b THEN b[c] ELSE row[c]]

\* C11: a customer PATCH on an existing customer whose body carries a
\* non-empty subset S of firstName, lastName, email, customerType is answered
\* 200 and sets exactly the fields of S on that row (customerType in the
\* column type); the other fields, the other rows and the phone rows stay.
C11_PatchSetsFields ==
    [][(/\ req'.op = "PatchCustomer"
        /\ req'.id \in DOMAIN customers
        /\ DOMAIN req'.body \cap {"firstName", "lastName", "email", "customerType"} # {})
       => /\ res'.status = 200
          /\ customers' = [customers EXCEPT
                              ![req'.id] = PatchedRow(customers[req'.id], req'.body)]
          /\ customer_telephones' = customer_telephones]_vars

(***************************************************************************)
(* Registrations served at once.  A register handler gives up control at   *)
(* every await db.query(...); each statement is one step of its call, and  *)
(* the steps of two calls interleave.  A statement the store rejects       *)
(* throws, and the handler's catch answers 500.                            *)
(***************************************************************************)
Calls == {1, 2}

\* a call no request has reached yet
Idle == [pc |-> "idle", body |-> <<>>, i |-> 0, id |-> 0, res |-> NoResponse,
         stmts |-> <<>>]

ParentName == IF router = "customers" THEN "customers" ELSE "employees"
PhoneName == IF router = "customers" THEN "customer_telephones" ELSE "employee_phones"
NextId == IF router = "customers" THEN nextCustomerId ELSE nextEmployeeId

\* the bodies sent to the register route of the router: they pass validation
\* or leave a required key out
RegisterBodies ==
    IF router = "customers"
    THEN {CustomerBody(e, l) : e \in EmailInputs, l \in PhoneLists}
         \cup {Without(CustomerBody("nimal@x.lk", <<"0722222222">>), "firstName")}
    ELSE {EmployeeBody(e, u, l) : e \in EmailInputs, u \in UsernameInputs, l \in PhoneLists}
         \cup {Without(EmployeeBody("nimal@x.lk", "sunil", <<"0722222222">>), "firstName")}

RegisterErrors(b) ==
    IF router = "customers" THEN CustomerRegisterErrors[b] ELSE EmployeeRegisterErrors[b]

RegisterRow(b) == IF router = "customers" THEN CustomerRow(b) ELSE EmployeeRow(b)

Registered ==
    IF router = "customers"
    THEN Message(201, "Customer registered successfully!")
    ELSE Message(201, "Employee registered successfully!")

\* the error.message of a statement the store rejected
StoreError == "store error"

\* the tables of the router after a step
Store(parents, phones, next) ==
    IF router = "customers"
    THEN /\ customers' = parents
         /\ customer_telephones' = phones
         /\ nextCustomerId' = next
         /\ UNCHANGED employeeVars
    ELSE /\ employees' = parents
         /\ employee_phones' = phones
         /\ nextEmployeeId' = next
         /\ UNCHANGED customerVars

StoreUnchanged == UNCHANGED <<customerVars, employeeVars>>

\* call p at position pc moves on; the rest of the server state stays
At(p, pc) ==
    /\ inflight[p].pc = pc
    /\ UNCHANGED <<router, calls, req, res, stmts, telephones, productVars>>

\* call p issued the statement and goes to position pc
Goes(p, pc, stmt) ==
    inflight' = [inflight EXCEPT ![p].pc = pc, ![p].stmts = @ \o <<stmt>>]

\* call p issued the statement and responds
Responds(p, response, stmt) ==
    inflight' = [inflight EXCEPT ![p].pc = "done", ![p].res = response,
                                 ![p].stmts = @ \o <<stmt>>]

\* catch (error) { res.status(500).json({ error: error.message }) }
Throws(p, stmt) ==
    /\ Responds(p, StoreFailure(StoreError), stmt)
    /\ StoreUnchanged

\* the position after the email check (customers) or the username check
\* (employees): the phone loop, or the insert when the list is empty
AfterParentChecks(b) == IF Len(PhoneList(b)) = 0 THEN "insert" ELSE "phone"

\* the request reaches the handler: validationResult, then the first query
\* is sent
Receive(p, b) ==
    /\ At(p, "idle")
    /\ StoreUnchanged
    /\ IF RegisterErrors(b) # <<>>
       THEN inflight' = [inflight EXCEPT ![p].pc = "done", ![p].body = b,
                                         ![p].res = ValidationFailure(RegisterErrors(b))]
       ELSE inflight' = [inflight EXCEPT ![p].pc = "email", ![p].body = b, ![p].i = 1]

\* SELECT * FROM <parent> WHERE email = ?
CheckEmail(p) ==
    /\ At(p, "email")
    /\ LET b == inflight[p].body
           stmt == "SELECT " \o ParentName
       IN \/ Throws(p, stmt)
          \/ /\ StoreUnchanged
             /\ IF SelectByEmail(Parents, b.email) # {}
                THEN Responds(p, Message(400, "Email already exists"), stmt)
                ELSE Goes(p, IF router = "customers" THEN AfterParentChecks(b)
                                                     ELSE "username", stmt)

\* SELECT * FROM employees WHERE username = ?
CheckUsername(p) ==
    /\ At(p, "username")
    /\ LET b == inflight[p].body
           stmt == "SELECT employees"
       IN \/ Throws(p, stmt)
          \/ /\ StoreUnchanged
             /\ IF SelectByUsername(employees, b.username) # {}
                THEN Responds(p, Message(400, "Username already exists"), stmt)
                ELSE Goes(p, AfterParentChecks(b), stmt)

\* one turn of the phone loop: SELECT * FROM <phones> WHERE phone_number = ?
CheckPhone(p) ==
    /\ At(p, "phone")
    /\ LET list == PhoneList(inflight[p].body)
           i == inflight[p].i
           stmt == "SELECT " \o PhoneName
       IN \/ Throws(p, stmt)
          \/ /\ StoreUnchanged
             /\ IF SelectByPhone(Phones, list[i]) # {}
                THEN Responds(p, Message(400, PhoneExistsMessage(list[i])), stmt)
                ELSE inflight' = [inflight EXCEPT
                                     ![p].pc = IF i = Len(list) THEN "insert" ELSE "phone",
                                     ![p].i = i + 1,
                                     ![p].stmts = @ \o <<stmt>>]

\* a faulty insert step that looks the email up once more and refuses
InsertParentRechecked(p) ==
    /\ At(p, "insert")
    /\ LET b == inflight[p].body
           stmt == "INSERT " \o ParentName
       IN IF SelectByEmail(Parents, b.email) # {}
          THEN /\ StoreUnchanged
               /\ Responds(p, Message(400, "Email already exists"), stmt)
          ELSE /\ Store(InsertRow(Parents, NextId, RegisterRow(b)), Phones, NextId + 1)
               /\ IF Len(PhoneList(b)) > 0
                  THEN inflight' = [inflight EXCEPT ![p].pc = "phones", ![p].id = NextId,
                                                    ![p].stmts = @ \o <<stmt>>]
                  ELSE inflight' = [inflight EXCEPT ![p].pc = "done", ![p].id = NextId,
                                                    ![p].res = Registered,
                                                    ![p].stmts = @ \o <<stmt>>]

\* INSERT INTO <parent> ...; const id = result.insertId
InsertParent(p) ==
    /\ At(p, "insert")
    /\ LET b == inflight[p].body
           stmt == "INSERT " \o ParentName
       IN \/ Throws(p, stmt)
          \/ /\ Store(InsertRow(Parents, NextId, RegisterRow(b)), Phones, NextId + 1)
             /\ IF Len(PhoneList(b)) > 0
                THEN inflight' = [inflight EXCEPT ![p].pc = "phones", ![p].id = NextId,
                                                  ![p].stmts = @ \o <<stmt>>]
                ELSE inflight' = [inflight EXCEPT ![p].pc = "done", ![p].id = NextId,
                                                  ![p].res = Registered,
                                                  ![p].stmts = @ \o <<stmt>>]

\* a faulty bulk insert step that takes the parent row back when it fails
InsertPhoneRowsRolledBack(p) ==
    /\ At(p, "phones")
    /\ LET b == inflight[p].body
           stmt == "INSERT " \o PhoneName
       IN \/ /\ Store(DeleteRow(Parents, inflight[p].id), Phones, NextId)
             /\ Responds(p, StoreFailure(StoreError), stmt)
          \/ /\ Store(Parents, InsertPhones(Phones, inflight[p].id, PhoneList(b)), NextId)
             /\ Responds(p, Registered, stmt)

\* INSERT INTO <phones> (<key>, phone_number) VALUES ?
InsertPhoneRows(p) ==
    /\ At(p, "phones")
    /\ LET b == inflight[p].body
           stmt == "INSERT " \o PhoneName
       IN \/ Throws(p, stmt)
          \/ /\ Store(Parents, InsertPhones(Phones, inflight[p].id, PhoneList(b)), NextId)
             /\ Responds(p, Registered, stmt)

RegisterInit ==
    /\ router \in {"customers", "employees"}
    /\ calls = 0
    /\ req = NoRequest
    /\ res = NoResponse
    /\ stmts = <<>>
    /\ telephones = FALSE
    /\ uploads = 0
    /\ inflight = [p \in Calls |-> Idle]
    /\ EmptyStore \/ SeededStore

RegisterNext ==
    \E p \in Calls :
        \/ \E b \in RegisterBodies : Receive(p, b)
        \/ CheckEmail(p)
        \/ CheckUsername(p)
        \/ CheckPhone(p)
        \/ InsertParent(p)
        \/ InsertPhoneRows(p)

RegisterSpec == RegisterInit /\ [][RegisterNext]_vars

\* call p took the step
Stepped(p) == inflight'[p] # inflight[p]

\* the rows of the parent table that hold the email
RowsWithEmail(email) == {id \in DOMAIN Parents : Parents[id].email = email}

\* C12: once a registration has passed its uniqueness checks, no step of it
\* looks at the store again or waits for the other call: unless the store
\* rejects the statement, its insert step stores the parent row under a new
\* key and its bulk insert stores every phone row, whatever rows the other
\* call has stored meanwhile, and the call answers 201.  So two registrations
\* with the same email, username and phone can both insert (the witness).
C12_NoRecheckBeforeInsert ==
    [][\A p \in Calls :
        /\ (inflight[p].pc = "insert" /\ Stepped(p))
           => \/ inflight'[p].res = StoreFailure(StoreError)
              \/ /\ NextId \notin DOMAIN Parents
                 /\ Parents' = InsertRow(Parents, NextId, RegisterRow(inflight[p].body))
                 /\ inflight'[p].pc = "phones" \/ inflight'[p].res = Registered
        /\ (inflight[p].pc = "phones" /\ Stepped(p))
           => \/ inflight'[p].res = StoreFailure(StoreError)
              \/ /\ Phones' = Phones (+) PhoneValues(inflight[p].id,
                                                     PhoneList(inflight[p].body))
                 /\ inflight'[p].res = Registered]_vars

\* two employee registrations with the same email, username and phone list
\* were both answered 201, and the tables hold two rows with that email and
\* a phone number twice
C12_Witness ==
    /\ router = "employees"
    /\ \A p \in Calls : inflight[p].res = Registered
    /\ inflight[1].body = inflight[2].body
    /\ Cardinality(RowsWithEmail(inflight[1].body.email)) = 2
    /\ Cardinality(SelectByUsername(employees, inflight[1].body.username)) = 2
    /\ \E n \in Range(PhoneList(inflight[1].body)) :
          Cardinality(SelectByPhone(Phones, n)) = 2

\* how often the call issued the statement
Issued(call, stmt) == Cardinality({k \in DOMAIN call.stmts : call.stmts[k] = stmt})

\* the bulk insert of call p was rejected by the store
BulkInsertFails(p) ==
    /\ inflight[p].pc = "phones"
    /\ Stepped(p)
    /\ inflight'[p].res.status = 500

\* C13: when the parent insert of a registration succeeded and its bulk
\* insert of phone rows fails, the call answers 500 with the store's error
\* message, the parent row stays stored with no phone row (nothing is rolled
\* back or deleted), and the call issues no statement again: each insert was
\* sent once and the call takes no further step.
C13_FailedBulkInsertLeavesParent ==
    [][\A p \in Calls :
        /\ BulkInsertFails(p)
           => /\ inflight'[p].res = [status |-> 500, message |-> "", errors |-> <<>>,
                                     error |-> StoreError]
              /\ Parents' = Parents
              /\ inflight[p].id \in DOMAIN Parents'
              /\ Parents'[inflight[p].id] = RegisterRow(inflight[p].body)
              /\ Phones' = Phones
              /\ RowCount(Phones', inflight[p].id) = 0
              /\ inflight'[p].pc = "done"
              /\ Issued(inflight'[p], "INSERT " \o ParentName) = 1
              /\ Issued(inflight'[p], "INSERT " \o PhoneName) = 1
        /\ inflight[p].pc = "done" => ~Stepped(p)]_vars

\* a registration answered 500 after its bulk insert, its parent row stored
\* without a phone row
C13_Witness ==
    \E p \in Calls :
        /\ inflight[p].res.status = 500
        /\ Issued(inflight[p], "INSERT " \o PhoneName) = 1
        /\ inflight[p].id \in DOMAIN Parents
        /\ RowCount(Phones, inflight[p].id) = 0
        /\ Len(PhoneList(inflight[p].body)) = 2

\* C14: on the product create and update routes the field rules are applied
\* before the uploaded file is written, so a request whose body fails them
\* writes no file to ./uploads/; in particular none is written for a request
\* answered with the validation error list.
C14_NoFileForInvalidProduct ==
    [][(/\ req'.op \in {"AddProduct", "UpdateProduct"}
        /\ DeclaredErrors(req') # <<>> \/ res'.errors # <<>>)
       => uploads' = uploads]_vars

\* C15: every row of customer_telephones carries the customer_id of a row of
\* customers, and every row of employee_phones the employee_id of a row of
\* employees.
C15_PhoneRowsHaveParent ==
    /\ \A r \in BagToSet(customer_telephones) : r[1] \in DOMAIN customers
    /\ \A r \in BagToSet(employee_phones) : r[1] \in DOMAIN employees

====
